---- MODULE Spec2Model ----
(***************************************************************************)
(* Model of localstack/services/moto.py: the dispatch of a request context *)
(* to a moto backend handler without the HTTP round trip.                  *)
(*                                                                         *)
(*   get_moto_routing_table  the lru_cache() around load_moto_routing_table*)
(*   load_moto_routing_table the builder of a service's werkzeug URL map   *)
(*   get_dispatcher          the resolution of a path to a handler         *)
(*   dispatch_to_moto        header, handler call, RESTError translation   *)
(*   call_moto / proxy_moto  the two caller-facing translations            *)
(*   MotoFallbackDispatcher  the provider wrapper falling back on moto     *)
(*                                                                         *)
(* A worker is one thread of the process serving one call at a time; the   *)
(* lru_cache is the only state the workers share.                          *)
(***************************************************************************)
EXTENDS Integers, Sequences, FiniteSets, TLC

VARIABLES
    cache,      \* the lru_cache of get_moto_routing_table: least recently used first
    nextId,     \* identity of the next Map object load_moto_routing_table allocates
    builds,     \* per service: how often load_moto_routing_table has been invoked
    wk,         \* per worker: the frame of the call it is serving
    calls       \* number of calls started so far

vars == <<cache, nextId, builds, wk, calls>>

\* ---------------------------------------------------------------- bounds

NumWorkers == 2          \* worker threads of the process
MaxCalls == 2            \* dispatching calls started in one behaviour of Spec
MaxCacheCalls == 4       \* table getter calls started in one behaviour of SpecCache
NumServices == 130       \* service identifiers the engine registers (1..NumServices)

\* functools.lru_cache() without arguments: maxsize defaults to 128
maxsize == 128

Workers == 1..NumWorkers

\* ---------------------------------------------------------------- the engine's registry

DEFAULT_AWS_ACCOUNT_ID == "000000000000"
OtherAccount == "111111111111"

\* A segment of a URL rule: a static text or a converter variable accepting
\* some segment texts (the regex of moto's RegexConverter).
Lit(s) == [var |-> FALSE, text |-> s, accepts |-> {}]
Var(S) == [var |-> TRUE, text |-> "", accepts |-> S]

SegTexts == {"a", "b"}

\* A registration url_path -> handler of a backend's flask_paths; slash says
\* whether the pattern ends in "/".
Path(segs, slash, handler) == [segs |-> segs, slash |-> slash, handler |-> handler]

OnePath == << Path(<<Lit("a")>>, FALSE, "h_one") >>

ManyPaths ==
    << Path(<<Var(SegTexts)>>, FALSE, "h_var"),
       Path(<<Lit("a")>>, FALSE, "h_a"),
       Path(<<Var({"b"})>>, FALSE, "h_varb"),
       Path(<<Lit("a"), Var(SegTexts)>>, TRUE, "h_a_var"),
       Path(<<Var({"a"}), Lit("b")>>, FALSE, "h_var_b") >>

GlobalPaths ==
    << Path(<<Lit("a")>>, TRUE, "h_g_a"),
       Path(<<Lit("a"), Lit("b")>>, FALSE, "h_g_ab") >>

FlatPaths == << Path(<<Var(SegTexts)>>, FALSE, "h_flat") >>

OtherPaths == << Path(<<Lit("b")>>, FALSE, "h_other") >>

UnknownService == 0
Services == 0..NumServices

\* moto_backends.get_backend(service): a BackendDict (account -> region ->
\* backend), a plain dict holding the single "global" backend, or no backend.
\* Services 1..5 differ in shape; every further service looks like service 1.
get_backend(s) ==
    CASE s = UnknownService ->
            [kind |-> "KeyError", accounts |-> <<>>, flat |-> <<>>]
      [] s = 2 ->
            [kind |-> "BackendDict", flat |-> <<>>,
             accounts |-> [a \in {DEFAULT_AWS_ACCOUNT_ID, OtherAccount} |->
                 IF a = DEFAULT_AWS_ACCOUNT_ID
                 THEN [r \in {"us-east-1", "global"} |->
                          IF r = "us-east-1" THEN ManyPaths ELSE OtherPaths]
                 ELSE [r \in {"us-east-1"} |-> OtherPaths]]]
      [] s = 3 ->
            [kind |-> "BackendDict", flat |-> <<>>,
             accounts |-> [a \in {DEFAULT_AWS_ACCOUNT_ID} |->
                 [r \in {"global", "eu-west-1"} |->
                          IF r = "global" THEN GlobalPaths ELSE OtherPaths]]]
      [] s = 4 ->
            [kind |-> "dict", accounts |-> <<>>,
             flat |-> [r \in {"global"} |-> FlatPaths]]
      [] s = 5 ->
            [kind |-> "BackendDict", flat |-> <<>>,
             accounts |-> [a \in {DEFAULT_AWS_ACCOUNT_ID} |->
                 [r \in {"eu-west-1"} |-> OtherPaths]]]
      [] OTHER ->
            [kind |-> "BackendDict", flat |-> <<>>,
             accounts |-> [a \in {DEFAULT_AWS_ACCOUNT_ID} |->
                 [r \in {"us-east-1", "eu-west-1"} |->
                          IF r = "us-east-1" THEN OnePath ELSE OtherPaths]]]

\* ---------------------------------------------------------------- load_moto_routing_table

\* Rule(url_path, endpoint=handler, strict_slashes=False)
Rule(p) == [segs |-> p.segs, slash |-> p.slash, endpoint |-> p.handler,
            strict_slashes |-> FALSE]

NoTable == [id |-> 0, svc |-> -1, rules |-> <<>>]

\* A selection that prefers the "global" instance of the default account to
\* the one of "us-east-1".
select_backend_global_first(s) ==
    LET bd == get_backend(s) IN
    IF bd.kind = "KeyError" THEN [ok |-> FALSE, flask_paths |-> <<>>]
    ELSE IF bd.kind = "BackendDict"
    THEN LET acct == bd.accounts[DEFAULT_AWS_ACCOUNT_ID] IN
         IF "global" \in DOMAIN acct
         THEN [ok |-> TRUE, flask_paths |-> acct["global"]]
         ELSE IF "us-east-1" \in DOMAIN acct
              THEN [ok |-> TRUE, flask_paths |-> acct["us-east-1"]]
              ELSE [ok |-> FALSE, flask_paths |-> <<>>]
    ELSE IF "global" \in DOMAIN bd.flat
         THEN [ok |-> TRUE, flask_paths |-> bd.flat["global"]]
         ELSE [ok |-> FALSE, flask_paths |-> <<>>]

\* The backend instance the builder reads flask_paths from: ok = FALSE when the
\* lookup raises (unknown service, or neither "us-east-1" nor "global").
select_backend(s) ==
    LET bd == get_backend(s) IN
    IF bd.kind = "KeyError" THEN [ok |-> FALSE, flask_paths |-> <<>>]
    ELSE IF bd.kind = "BackendDict"
    THEN LET acct == bd.accounts[DEFAULT_AWS_ACCOUNT_ID] IN
         IF "us-east-1" \in DOMAIN acct
         THEN [ok |-> TRUE, flask_paths |-> acct["us-east-1"]]
         ELSE IF "global" \in DOMAIN acct
              THEN [ok |-> TRUE, flask_paths |-> acct["global"]]
              ELSE [ok |-> FALSE, flask_paths |-> <<>>]
    ELSE IF "global" \in DOMAIN bd.flat
         THEN [ok |-> TRUE, flask_paths |-> bd.flat["global"]]
         ELSE [ok |-> FALSE, flask_paths |-> <<>>]

\* The Map built for service s, allocated with identity id: one Rule per
\* flask_paths item, in the order of the items.
load_moto_routing_table(s, id) ==
    LET b == select_backend(s) IN
    IF b.ok
    THEN [ok |-> TRUE,
          table |-> [id |-> id, svc |-> s,
                     rules |-> [i \in DOMAIN b.flask_paths |-> Rule(b.flask_paths[i])]]]
    ELSE [ok |-> FALSE, table |-> NoTable]

\* ---------------------------------------------------------------- lru_cache

CacheKeys(c) == {c[i].key : i \in DOMAIN c}
CacheIndex(c, k) == CHOOSE i \in DOMAIN c : c[i].key = k
CacheGet(c, k) == c[CacheIndex(c, k)].table

Without(c, i) == [j \in 1..(Len(c) - 1) |-> IF j < i THEN c[j] ELSE c[j + 1]]

\* A hit moves the entry to the most recently used end.
lru_hit(c, k) == LET i == CacheIndex(c, k) IN Append(Without(c, i), c[i])

\* After the wrapped function returned: a key another thread stored meanwhile
\* is left alone; a full cache drops its least recently used entry.
lru_store(c, k, t) ==
    IF k \in CacheKeys(c) THEN c
    ELSE IF Len(c) < maxsize THEN Append(c, [key |-> k, table |-> t])
    ELSE Append(Tail(c), [key |-> k, table |-> t])

\* ---------------------------------------------------------------- werkzeug matching

\* A request path: its segments and whether it ends in "/".
ReqPath(segs, slash) == [segs |-> segs, slash |-> slash]

\* Rule.match: segment by segment; with strict_slashes disabled a trailing
\* slash on either side is ignored.
RuleMatches(r, p) ==
    /\ Len(r.segs) = Len(p.segs)
    /\ \A i \in DOMAIN r.segs :
          IF r.segs[i].var THEN p.segs[i] \in r.segs[i].accepts
          ELSE p.segs[i] = r.segs[i].text
    /\ (r.strict_slashes => r.slash = p.slash)

\* weight of a converter (BaseConverter.weight), the same for RegexConverter
ConverterWeight == 100

\* The (index, -length) pairs of the static parts of a rule, flattened: the
\* rule text is "/" seg "/" seg ... with the static text between two
\* variables forming one part.
RECURSIVE StaticWeights(_, _, _, _, _)
StaticWeights(segs, i, cur, idx, slash) ==
    IF i > Len(segs)
    THEN LET last == cur + (IF slash THEN 1 ELSE 0) IN
         IF last > 0 THEN <<idx, -last>> ELSE <<>>
    ELSE IF segs[i].var
         THEN <<idx, -(cur + 1)>> \o StaticWeights(segs, i + 1, 0, idx + 2, slash)
         ELSE StaticWeights(segs, i + 1, cur + 1 + Len(segs[i].text), idx, slash)

ArgCount(r) == Cardinality({i \in DOMAIN r.segs : r.segs[i].var})

\* Rule.match_compare_key(): (has arguments, -number of static parts, static
\* weights, -number of arguments, argument weights), flattened to one sequence.
match_compare_key(r) ==
    LET sw == StaticWeights(r.segs, 1, 0, 0, r.slash) IN
    <<IF ArgCount(r) > 0 THEN 1 ELSE 0, -(Len(sw) \div 2)>> \o sw
        \o <<-ArgCount(r)>> \o [i \in 1..ArgCount(r) |-> ConverterWeight]

\* Python's ordering of sequences: the first difference decides, a proper
\* prefix is smaller.
RECURSIVE LexLess(_, _)
LexLess(a, b) ==
    IF b = <<>> THEN FALSE
    ELSE IF a = <<>> THEN TRUE
    ELSE IF Head(a) # Head(b) THEN Head(a) < Head(b)
    ELSE LexLess(Tail(a), Tail(b))

\* list.sort(key=match_compare_key) of Map.update(): a stable insertion of
\* rule i into the sorted index sequence.
RECURSIVE InsertSorted(_, _, _)
InsertSorted(rules, sorted, i) ==
    IF sorted = <<>> THEN <<i>>
    ELSE IF LexLess(match_compare_key(rules[i]), match_compare_key(rules[Head(sorted)]))
         THEN <<i>> \o sorted
         ELSE <<Head(sorted)>> \o InsertSorted(rules, Tail(sorted), i)

RECURSIVE SortRules(_, _)
SortRules(rules, n) ==
    IF n = 0 THEN <<>> ELSE InsertSorted(rules, SortRules(rules, n - 1), n)

\* A matcher that tries the rules in the order of their registration, without
\* sorting them by match_compare_key.
match_registration_order(rules, p) ==
    LET RECURSIVE First(_)
        First(i) == IF i > Len(rules) THEN 0
                    ELSE IF RuleMatches(rules[i], p) THEN i ELSE First(i + 1)
    IN First(1)

\* MapAdapter.match(path_info=path): the first rule, in sorted order, that
\* matches; 0 when none does (werkzeug raises NotFound).
RECURSIVE FirstMatch(_, _, _)
FirstMatch(rules, order, p) ==
    IF order = <<>> THEN 0
    ELSE IF RuleMatches(rules[Head(order)], p) THEN Head(order)
    ELSE FirstMatch(rules, Tail(order), p)

match(rules, p) == FirstMatch(rules, SortRules(rules, Len(rules)), p)

\* A get_dispatcher without the single-rule shortcut: it always matches.
get_dispatcher_always_match(table, p) ==
    LET i == match(table.rules, p) IN
    IF i = 0 THEN [ok |-> FALSE, endpoint |-> "none"]
    ELSE [ok |-> TRUE, endpoint |-> table.rules[i].endpoint]

\* A get_dispatcher that answers a path no rule matches with the first rule's
\* endpoint instead of raising.
get_dispatcher_first_on_miss(table, p) ==
    LET i == IF Len(table.rules) = 1 THEN 1 ELSE match(table.rules, p) IN
    IF i = 0 THEN [ok |-> Len(table.rules) > 0,
                   endpoint |-> IF Len(table.rules) > 0 THEN table.rules[1].endpoint
                                ELSE "none"]
    ELSE [ok |-> TRUE, endpoint |-> table.rules[i].endpoint]

\* get_dispatcher after the table is there: a single rule is taken without
\* matching, otherwise the matcher decides.
get_dispatcher(table, p) ==
    IF Len(table.rules) = 1
    THEN [ok |-> TRUE, endpoint |-> table.rules[1].endpoint]
    ELSE LET i == match(table.rules, p) IN
         IF i = 0 THEN [ok |-> FALSE, endpoint |-> "none"]
         ELSE [ok |-> TRUE, endpoint |-> table.rules[i].endpoint]

\* ---------------------------------------------------------------- the backend handler

XMotoAccountId == "x-moto-account-id"

\* get_aws_account_id(): the account id lives in thread-local storage, so it
\* is a property of the worker thread.
get_aws_account_id(w) == IF w = 1 THEN DEFAULT_AWS_ACCOUNT_ID ELSE OtherAccount

\* Wire bodies a handler returns: fields in document order, each a name with
\* its own members in document order.
Field(name, members) == <<name, members>>
ErrFull == Field("Error", << <<"Code", "Foo">>, <<"Message", "bar">> >>)
ErrCodeOnly == Field("Error", << <<"Code", "Foo">> >>)
ErrMessageOnly == Field("Error", << <<"Message", "bar">> >>)
ErrBare == Field("Error", <<>>)
Meta == Field("ResponseMetadata", << <<"RequestId", "r-1">> >>)
Data == Field("Result", << <<"Id", "i-1">>, <<"Id", "i-2">> >>)

Contents ==
    { <<>>, <<Data>>, <<Data, Meta>>, <<Meta>>,
      <<ErrFull, Meta>>, <<ErrCodeOnly>>, <<ErrMessageOnly>>, <<ErrBare>> }

Statuses == {200, 300, 301, 400}

ResponseHeaders == { << <<"content-type", "text/xml">> >> }

\* What a call of the resolved handler does: it returns (status, headers,
\* content), raises moto's RESTError, or raises anything else.
HandlerOutcomes ==
    [kind : {"return"}, status : Statuses, headers : ResponseHeaders, content : Contents]
    \cup [kind : {"RESTError"}, error_type : {"NoSuchThing"}, message : {"gone"},
          code : {400, 404}]
    \cup {[kind |-> "Exception"]}

\* ---------------------------------------------------------------- dispatch_to_moto

CommonServiceException(code, message, status_code) ==
    [kind |-> "CommonServiceException", code |-> code, message |-> message,
     status_code |-> status_code]

\* A header step that sets the headers to the account header alone.
add_account_header_replacing(headers, account) == <<<<XMotoAccountId, account>>>>

\* request.headers.add("x-moto-account-id", get_aws_account_id())
add_account_header(headers, account) == Append(headers, <<XMotoAccountId, account>>)

\* A dispatch_to_moto without the except clause: RESTError leaves it as it is.
dispatch_to_moto_uncaught(h) ==
    IF h.kind = "return"
    THEN [kind |-> "raw", status |-> h.status, headers |-> h.headers, content |-> h.content]
    ELSE h

\* try: return dispatch(...)  except RESTError as e: raise CommonServiceException(...)
\* Any other exception of the handler leaves dispatch_to_moto as it is.
dispatch_to_moto(h) ==
    IF h.kind = "return"
    THEN [kind |-> "raw", status |-> h.status, headers |-> h.headers, content |-> h.content]
    ELSE IF h.kind = "RESTError"
    THEN CommonServiceException(h.error_type, h.message, h.code)
    ELSE h

\* ---------------------------------------------------------------- parse_response

Names(seq) == {seq[i][1] : i \in DOMAIN seq}
LastOf(seq, n) == CHOOSE i \in DOMAIN seq :
    seq[i][1] = n /\ \A j \in DOMAIN seq : seq[j][1] = n => j <= i

\* Decoding of a wire body into a dict of dicts: a repeated name keeps its
\* last value.
Decode(seq) == [n \in Names(seq) |-> seq[LastOf(seq, n)][2]]
parse_response(content) == [n \in Names(content) |-> Decode(Decode(content)[n])]

\* ---------------------------------------------------------------- call_moto, proxy_moto

\* dict.get(key, default)
Get(d, key, default) == IF key \in DOMAIN d THEN d[key] ELSE default
\* dict.pop(key, None)
Pop(d, key) == [n \in DOMAIN d \ {key} |-> d[n]]

\* A call_moto that drops ResponseMetadata whatever include_response_metadata says.
call_moto_always_pop(d, include_response_metadata) ==
    IF d.kind # "raw" THEN d
    ELSE LET response == parse_response(d.content) IN
         IF d.status >= 301
         THEN IF "Error" \notin DOMAIN response
              THEN [kind |-> "KeyError"]
              ELSE CommonServiceException(
                       Get(response["Error"], "Code", "UnknownError"),
                       Get(response["Error"], "Message", ""),
                       d.status)
         ELSE [kind |-> "ServiceResponse", body |-> Pop(response, "ResponseMetadata")]

\* call_moto after dispatch_to_moto ended with d: an exception of the
\* dispatch passes through; a raw result is parsed and translated.
call_moto(d, include_response_metadata) ==
    IF d.kind # "raw" THEN d
    ELSE LET response == parse_response(d.content) IN
         IF d.status >= 301
         THEN IF "Error" \notin DOMAIN response
              THEN [kind |-> "KeyError"]
              ELSE CommonServiceException(
                       Get(response["Error"], "Code", "UnknownError"),
                       Get(response["Error"], "Message", ""),
                       d.status)
         ELSE [kind |-> "ServiceResponse",
               body |-> IF include_response_metadata THEN response
                        ELSE Pop(response, "ResponseMetadata")]

\* A proxy_moto that raises on an error status, as call_moto does.
proxy_moto_raising(d) ==
    IF d.kind # "raw" THEN d
    ELSE IF d.status >= 301
    THEN CommonServiceException("UnknownError", "", d.status)
    ELSE [kind |-> "HttpResponse", response |-> d.content, status |-> d.status,
          headers |-> d.headers]

\* proxy_moto after dispatch_to_moto ended with d
proxy_moto(d) ==
    IF d.kind # "raw" THEN d
    ELSE [kind |-> "HttpResponse", response |-> d.content, status |-> d.status,
          headers |-> d.headers]

\* ---------------------------------------------------------------- MotoFallbackDispatcher

\* What the provider's own method does for the operation.
ProviderOutcomes ==
    { [kind |-> "value", value |-> "v1"], [kind |-> "value", value |-> "v2"],
      [kind |-> "NotImplementedError"], [kind |-> "ProviderError"] }

\* A wrapper that falls through whatever the provider's method did.
ForwardingFallbackDispatcher_always(po) == TRUE

\* ForwardingFallbackDispatcher: the wrapped method falls through to the
\* fallthrough handler exactly when the provider raises NotImplementedError.
ForwardingFallbackDispatcher(po) == po.kind = "NotImplementedError"

\* A wrapper falling through to call_moto, the parsing call, instead of proxy_moto.
MotoFallbackDispatcher_call_moto == "call_moto"

\* MotoFallbackDispatcher(provider) = ForwardingFallbackDispatcher(provider, proxy_moto):
\* the operation a wrapped method falls through to.
MotoFallbackDispatcher == "proxy_moto"

\* ---------------------------------------------------------------- the workers

NoPath == ReqPath(<<>>, FALSE)
None == [kind |-> "none"]

\* The frame of a worker that serves no call.
Idle ==
    [pc |-> "idle", op |-> "none", svc |-> UnknownService, path |-> NoPath,
     include |-> FALSE, headers |-> <<>>, before |-> <<>>, provider |-> None,
     table |-> NoTable, handler |-> "none", out |-> None, d |-> None,
     result |-> None, invoked |-> 0, cacheOps |-> 0, built |-> 0, orig |-> <<>>]

Ops == {"get_moto_routing_table", "call_moto", "proxy_moto", "fallback",
        "call_moto_with_request"}

\* Request paths and request headers of the calls.
Paths ==
    { ReqPath(<<"a">>, FALSE), ReqPath(<<"a">>, TRUE), ReqPath(<<"b">>, FALSE),
      ReqPath(<<"a", "b">>, FALSE), ReqPath(<<"b", "b">>, FALSE) }

RequestHeaders == { <<>>, << <<"host", "localhost">> >> }

\* Headers of the original context of a call_moto_with_request: also one that
\* carries a name the rebuilt request sets itself.
OriginalHeaders ==
    RequestHeaders
        \cup { << <<"content-type", "text/plain">>, <<"host", "localhost">> >> }

\* Headers create_aws_request_context gives the request it builds.
NewRequestHeaders == << <<"content-type", "application/x-amz-json-1.1">> >>

\* A call_moto_with_request that dispatches the rebuilt request as it is,
\* without the headers of the original context.
call_moto_with_request_unmerged(new, original) == new

\* local_context.request.headers.extend(context.request.headers): every entry
\* of the original headers is added behind those of the rebuilt request.
call_moto_with_request(new, original) == new \o original

\* Services the dispatching calls use: every shape of the registry.
DispatchServices == 0..5

Init ==
    /\ cache = <<>>
    /\ nextId = 1
    /\ builds = [s \in Services |-> 0]
    /\ wk = [w \in Workers |-> Idle]
    /\ calls = 0

Free(w) == wk[w].pc \in {"idle", "done"}

\* A worker takes up a call: of the cached table getter itself, of call_moto,
\* of proxy_moto, or of a method of a provider wrapped by MotoFallbackDispatcher.
Start(w, op, s, p, inc, hd) ==
    /\ Free(w)
    /\ wk' = [wk EXCEPT ![w] =
                [Idle EXCEPT !.pc = IF op = "fallback" THEN "provider"
                                    ELSE IF op = "call_moto_with_request" THEN "rebuild"
                                    ELSE "lookup",
                             !.op = op, !.svc = s, !.path = p, !.include = inc,
                             !.headers = hd, !.before = hd, !.orig = hd]]
    /\ UNCHANGED <<cache, nextId, builds>>

\* One more call within a bound on the calls of a behaviour.
Counted(max) == calls < max /\ calls' = calls + 1

\* call_moto_with_request up to its call of call_moto: the request is built
\* anew from the service request, with a path of its own, and the original
\* headers are merged into it; call_moto then gets the local context.
Rebuild(w, p) ==
    /\ wk[w].pc = "rebuild"
    /\ LET hd == call_moto_with_request(NewRequestHeaders, wk[w].orig) IN
       wk' = [wk EXCEPT ![w].path = p, ![w].headers = hd, ![w].before = hd,
                        ![w].pc = "lookup"]
    /\ UNCHANGED <<cache, nextId, builds, calls>>

\* The wrapped method calls the provider's method first.
Provider(w, po) ==
    /\ wk[w].pc = "provider"
    /\ wk' = [wk EXCEPT ![w].provider = po,
                        ![w].pc = IF ForwardingFallbackDispatcher(po)
                                  THEN "lookup" ELSE "done",
                        ![w].result = IF ForwardingFallbackDispatcher(po)
                                      THEN None ELSE po]
    /\ UNCHANGED <<cache, nextId, builds, calls>>

\* Where a call goes on once it holds the table.
AfterTable(f, t) ==
    IF f.op = "get_moto_routing_table"
    THEN [f EXCEPT !.table = t, !.pc = "done", !.result = [kind |-> "table", table |-> t]]
    ELSE [f EXCEPT !.table = t, !.pc = "resolve"]

\* Where an exception raised before the handler call leaves the call: the
\* table getter's caller sees it; a dispatch ends with it.
Raised(f, e) ==
    IF f.op = "get_moto_routing_table"
    THEN [f EXCEPT !.pc = "done", !.result = e]
    ELSE [f EXCEPT !.pc = "translate", !.d = e]

\* lru_cache wrapper, first part: look the key up.
LruLookup(w) ==
    /\ wk[w].pc = "lookup"
    /\ IF wk[w].svc \in CacheKeys(cache)
       THEN /\ cache' = lru_hit(cache, wk[w].svc)
            /\ wk' = [wk EXCEPT ![w] =
                        AfterTable([wk[w] EXCEPT !.cacheOps = @ + 1],
                                   CacheGet(cache, wk[w].svc))]
       ELSE /\ cache' = cache
            /\ wk' = [wk EXCEPT ![w].pc = "build", ![w].cacheOps = @ + 1]
    /\ UNCHANGED <<nextId, builds, calls>>

\* A miss that stores an empty table under the key when the builder fails.
Build_caching_failure(w) ==
    /\ wk[w].pc = "build"
    /\ builds' = [builds EXCEPT ![wk[w].svc] = @ + 1]
    /\ LET r == load_moto_routing_table(wk[w].svc, nextId) IN
       IF r.ok
       THEN /\ nextId' = nextId + 1
            /\ cache' = cache
            /\ wk' = [wk EXCEPT ![w].table = r.table, ![w].pc = "store",
                                ![w].built = @ + 1]
       ELSE /\ nextId' = nextId
            /\ cache' = lru_store(cache, wk[w].svc, [NoTable EXCEPT !.svc = wk[w].svc])
            /\ wk' = [wk EXCEPT ![w] =
                        Raised([wk[w] EXCEPT !.built = @ + 1],
                               [kind |-> "ConfigurationError"])]
    /\ UNCHANGED calls

\* lru_cache wrapper, second part: the miss calls load_moto_routing_table.
Build(w) ==
    /\ wk[w].pc = "build"
    /\ builds' = [builds EXCEPT ![wk[w].svc] = @ + 1]
    /\ LET r == load_moto_routing_table(wk[w].svc, nextId) IN
       IF r.ok
       THEN /\ nextId' = nextId + 1
            /\ wk' = [wk EXCEPT ![w].table = r.table, ![w].pc = "store",
                                ![w].built = @ + 1]
       ELSE /\ nextId' = nextId
            /\ wk' = [wk EXCEPT ![w] =
                        Raised([wk[w] EXCEPT !.built = @ + 1],
                               [kind |-> "ConfigurationError"])]
    /\ UNCHANGED <<cache, calls>>

\* lru_cache wrapper, third part: store the result and return it.
LruStore(w) ==
    /\ wk[w].pc = "store"
    /\ cache' = lru_store(cache, wk[w].svc, wk[w].table)
    /\ wk' = [wk EXCEPT ![w] = AfterTable([wk[w] EXCEPT !.cacheOps = @ + 1], wk[w].table)]
    /\ UNCHANGED <<nextId, builds, calls>>

\* A dispatch that attaches the account header before it resolves the handler.
Resolve_header_first(w) ==
    /\ wk[w].pc = "resolve"
    /\ LET r == get_dispatcher(wk[w].table, wk[w].path)
           f == [wk[w] EXCEPT !.headers = add_account_header(@, get_aws_account_id(w))] IN
       wk' = [wk EXCEPT ![w] =
                IF r.ok THEN [wk[w] EXCEPT !.handler = r.endpoint, !.pc = "invoke"]
                ELSE Raised(f, [kind |-> "NoMatchingRoute"])]
    /\ UNCHANGED <<cache, nextId, builds, calls>>

\* get_dispatcher with the table in hand.
Resolve(w) ==
    /\ wk[w].pc = "resolve"
    /\ LET r == get_dispatcher(wk[w].table, wk[w].path) IN
       wk' = [wk EXCEPT ![w] =
                IF r.ok THEN [wk[w] EXCEPT !.handler = r.endpoint, !.pc = "invoke"]
                ELSE Raised(wk[w], [kind |-> "NoMatchingRoute"])]
    /\ UNCHANGED <<cache, nextId, builds, calls>>

\* A dispatch that calls the handler a second time after a first call that
\* raised or returned an error status.
Invoke_retry(w, h) ==
    /\ wk[w].pc = "invoke"
    /\ wk' = [wk EXCEPT ![w].headers = IF wk[w].invoked = 0
                                       THEN add_account_header(@, get_aws_account_id(w))
                                       ELSE @,
                        ![w].invoked = @ + 1,
                        ![w].out = h,
                        ![w].d = dispatch_to_moto(h),
                        ![w].pc = IF wk[w].invoked = 0
                                     /\ (h.kind # "return" \/ h.status >= 301)
                                  THEN "invoke" ELSE "translate"]
    /\ UNCHANGED <<cache, nextId, builds, calls>>

\* dispatch_to_moto from the header on: the account header is added, the
\* handler is called once and its outcome leaves dispatch_to_moto.
Invoke(w, h) ==
    /\ wk[w].pc = "invoke"
    /\ wk' = [wk EXCEPT ![w].headers = add_account_header(@, get_aws_account_id(w)),
                        ![w].invoked = @ + 1,
                        ![w].out = h,
                        ![w].d = dispatch_to_moto(h),
                        ![w].pc = "translate"]
    /\ UNCHANGED <<cache, nextId, builds, calls>>

\* The translation the call applies to the end of dispatch_to_moto.
Translation(op, d, inc) ==
    LET f == IF op = "fallback" THEN MotoFallbackDispatcher ELSE op IN
    IF f \in {"call_moto", "call_moto_with_request"} THEN call_moto(d, inc)
    ELSE proxy_moto(d)

Translate(w) ==
    /\ wk[w].pc = "translate"
    /\ wk' = [wk EXCEPT ![w].result = Translation(wk[w].op, wk[w].d, wk[w].include),
                        ![w].pc = "done"]
    /\ UNCHANGED <<cache, nextId, builds, calls>>

\* ---------------------------------------------------------------- specifications

\* The calls of one worker thread, one after the other, over every shape of
\* service: the dispatch pipeline.
DispatchWorker == CHOOSE w \in Workers : \A v \in Workers : w <= v

StartCall(w) ==
    /\ Counted(MaxCalls)
    /\ \/ \E s \in DispatchServices : Start(w, "get_moto_routing_table", s, NoPath, FALSE, <<>>)
       \/ \E s \in DispatchServices, p \in Paths, inc \in BOOLEAN, hd \in RequestHeaders :
             Start(w, "call_moto", s, p, inc, hd)
       \/ \E s \in DispatchServices, p \in Paths, hd \in RequestHeaders :
             Start(w, "proxy_moto", s, p, FALSE, hd)
       \/ \E s \in DispatchServices, p \in Paths, hd \in RequestHeaders :
             Start(w, "fallback", s, p, FALSE, hd)
       \/ \E s \in DispatchServices, hd \in OriginalHeaders :
             Start(w, "call_moto_with_request", s, NoPath, FALSE, hd)

Next ==
    \/ StartCall(DispatchWorker)
    \/ \E po \in ProviderOutcomes : Provider(DispatchWorker, po)
    \/ \E p \in Paths : Rebuild(DispatchWorker, p)
    \/ LruLookup(DispatchWorker)
    \/ Build(DispatchWorker)
    \/ LruStore(DispatchWorker)
    \/ Resolve(DispatchWorker)
    \/ \E h \in HandlerOutcomes : Invoke(DispatchWorker, h)
    \/ Translate(DispatchWorker)

Spec == Init /\ [][Next]_vars

\* Concurrent calls of get_moto_routing_table by all the workers.
CacheServices == 0..2

NextCache ==
    \E w \in Workers :
        \/ /\ Counted(MaxCacheCalls)
           /\ \E s \in CacheServices :
                 Start(w, "get_moto_routing_table", s, NoPath, FALSE, <<>>)
        \/ LruLookup(w)
        \/ Build(w)
        \/ LruStore(w)

SpecCache == Init /\ [][NextCache]_vars

\* One worker calling get_moto_routing_table for one service after the other:
\* for service 1 again and again, and for every other registered service once,
\* in the order of the identifiers.
Unrequested == {s \in 1..NumServices : builds[s] = 0}
SweepServices ==
    {1} \cup {s \in Unrequested : \A t \in Unrequested : s <= t}

NextSweep ==
    \/ /\ \E s \in SweepServices :
             Start(DispatchWorker, "get_moto_routing_table", s, NoPath, FALSE, <<>>)
       /\ UNCHANGED calls
    \/ LruLookup(DispatchWorker)
    \/ Build(DispatchWorker)
    \/ LruStore(DispatchWorker)

SpecSweep == Init /\ [][NextSweep]_vars

\* ---------------------------------------------------------------- claims

Done(w) == wk[w].pc = "done"
GotTable(w, s) ==
    Done(w) /\ wk[w].op = "get_moto_routing_table" /\ wk[w].svc = s
        /\ wk[w].result.kind = "table"

\* C1: however the workers' concurrent get_moto_routing_table calls for a
\* registered service interleave, load_moto_routing_table is invoked at most
\* once for it and all callers hold the same table object.
C1_SingleFlight ==
    \A s \in 1..NumServices :
        /\ builds[s] <= 1
        /\ \A v, w \in Workers :
              GotTable(v, s) /\ GotTable(w, s)
                  => wk[v].result.table.id = wk[w].result.table.id

\* C2: an entry of the cache is never removed or overwritten: every key
\* stored before a step is stored after it, with the same table.
C2_AppendOnly ==
    [][\A i \in DOMAIN cache : \E j \in DOMAIN cache' : cache'[j] = cache[i]]_vars

\* A dispatching call that is past get_dispatcher with a table in hand.
Resolved(w) ==
    /\ wk[w].op \in {"call_moto", "proxy_moto", "fallback", "call_moto_with_request"}
    /\ wk[w].pc \in {"invoke", "translate", "done"}
    /\ wk[w].table # NoTable

FellThrough(w) ==
    Done(w) /\ wk[w].op = "fallback" /\ wk[w].provider.kind = "NotImplementedError"

\* C3: a wrapped method whose provider raises NotImplementedError returns the
\* handler's (status, headers, body) as an HTTP response, whatever the
\* status, and a RESTError of the handler as the CommonServiceException a
\* proxy_moto call raises; NotImplementedError never reaches the caller.
C3_FallbackIsProxy ==
    \A w \in Workers :
        /\ Done(w) /\ wk[w].op = "fallback" => wk[w].result.kind # "NotImplementedError"
        /\ FellThrough(w) /\ wk[w].out.kind = "return" =>
              wk[w].result = [kind |-> "HttpResponse", status |-> wk[w].out.status,
                              headers |-> wk[w].out.headers,
                              response |-> wk[w].out.content]
        /\ FellThrough(w) /\ wk[w].out.kind = "RESTError" =>
              wk[w].result = CommonServiceException(wk[w].out.error_type,
                                                    wk[w].out.message, wk[w].out.code)

C3_Witness ==
    \E w \in Workers :
        /\ FellThrough(w)
        /\ wk[w].out.kind = "return" /\ wk[w].out.status >= 301
        /\ wk[w].out.content = <<ErrFull, Meta>>
        /\ wk[w].result.kind = "HttpResponse"

\* C4: when the provider's method returns a value or raises anything but
\* NotImplementedError, the wrapped method ends with exactly that, no handler
\* is resolved or called and the call neither reads nor writes the cache.
C4_ProviderOutcomeKept ==
    \A w \in Workers :
        Done(w) /\ wk[w].op = "fallback"
                /\ wk[w].provider.kind \in {"value", "ProviderError"} =>
            /\ wk[w].result = wk[w].provider
            /\ wk[w].handler = "none" /\ wk[w].invoked = 0
            /\ wk[w].cacheOps = 0 /\ wk[w].built = 0 /\ wk[w].table = NoTable

C4_Witness ==
    \E w \in Workers :
        /\ Done(w) /\ wk[w].op = "fallback" /\ wk[w].provider.kind = "ProviderError"
        /\ wk[w].result.kind = "ProviderError"
        /\ wk[w].svc \in CacheKeys(cache)

\* C5: a RESTError of the handler leaves dispatch_to_moto, and with it
\* call_moto and proxy_moto, as a CommonServiceException with the error type
\* as code, the same message and the error's code as status; no call ends
\* with a RESTError, and a handler that returns or raises RESTError ends the
\* dispatch with a raw result or a CommonServiceException.
C5_RestErrorTranslated ==
    \A w \in Workers :
        /\ wk[w].d.kind # "RESTError" /\ wk[w].result.kind # "RESTError"
        /\ wk[w].out.kind = "RESTError" =>
              /\ wk[w].d = CommonServiceException(wk[w].out.error_type,
                                                  wk[w].out.message, wk[w].out.code)
              /\ Done(w) => wk[w].result = wk[w].d
        /\ wk[w].out.kind \in {"return", "RESTError"} =>
              wk[w].d.kind \in {"raw", "CommonServiceException"}

C5_Witness ==
    \E w \in Workers :
        /\ Done(w) /\ wk[w].op = "call_moto"
        /\ wk[w].out.kind = "RESTError" /\ wk[w].out.code = 404
        /\ wk[w].result = CommonServiceException("NoSuchThing", "gone", 404)

\* C6: call_moto turns a raw result into a CommonServiceException exactly when
\* the status is at least 301, with the status, with Error.Code or
\* "UnknownError" and with Error.Message or ""; the translation ends in nothing
\* but a parsed response or that exception.
C6_ErrorStatusTranslated ==
    \A w \in Workers :
        Done(w) /\ wk[w].op = "call_moto" /\ wk[w].d.kind = "raw" =>
            LET body == parse_response(wk[w].d.content)
                error == Get(body, "Error", <<>>)
            IN /\ wk[w].result.kind \in {"ServiceResponse", "CommonServiceException"}
               /\ wk[w].result.kind = "CommonServiceException" <=> wk[w].d.status >= 301
               /\ wk[w].d.status >= 301 =>
                     wk[w].result = CommonServiceException(
                                        Get(error, "Code", "UnknownError"),
                                        Get(error, "Message", ""), wk[w].d.status)

\* C7: for a raw result with a status below 301 call_moto returns the parsed
\* body: all of it when include_response_metadata is set, and otherwise all
\* its members but ResponseMetadata; a body without ResponseMetadata comes
\* back unchanged.
C7_MetadataDropped ==
    \A w \in Workers :
        Done(w) /\ wk[w].op = "call_moto" /\ wk[w].d.kind = "raw"
                /\ wk[w].d.status < 301 =>
            LET body == parse_response(wk[w].d.content) IN
            /\ wk[w].result.kind = "ServiceResponse"
            /\ wk[w].include => wk[w].result.body = body
            /\ ~wk[w].include =>
                  /\ DOMAIN wk[w].result.body = DOMAIN body \ {"ResponseMetadata"}
                  /\ \A n \in DOMAIN wk[w].result.body : wk[w].result.body[n] = body[n]
            /\ "ResponseMetadata" \notin DOMAIN body => wk[w].result.body = body

C7_Witness ==
    \E w \in Workers :
        /\ Done(w) /\ wk[w].op = "call_moto" /\ ~wk[w].include
        /\ wk[w].d.kind = "raw" /\ wk[w].d.status = 300
        /\ wk[w].d.content = <<Data, Meta>>
        /\ DOMAIN wk[w].result.body = {"Result"}
        /\ wk[w].result.body["Result"]["Id"] = "i-2"

\* C8: for a table of exactly one rule get_dispatcher returns that rule's
\* endpoint for every path, also for a path the rule does not match.
C8_SingleRuleShortcut ==
    \A w \in Workers :
        Resolved(w) /\ Len(wk[w].table.rules) = 1 =>
            /\ wk[w].handler = wk[w].table.rules[1].endpoint
            /\ wk[w].d.kind # "NoMatchingRoute"

C8_Witness ==
    \E w \in Workers :
        /\ Resolved(w) /\ Len(wk[w].table.rules) = 1
        /\ ~RuleMatches(wk[w].table.rules[1], wk[w].path)
        /\ wk[w].handler = "h_one"

Matching(w) ==
    {i \in DOMAIN wk[w].table.rules : RuleMatches(wk[w].table.rules[i], wk[w].path)}

\* C9 as stated: with two or more rules, the rule registered first among
\* those matching the path gives the handler, whatever matches later.
C9_RegistrationOrder ==
    \A w \in Workers :
        Resolved(w) /\ Len(wk[w].table.rules) >= 2 =>
            \A i \in Matching(w) :
                (\A j \in Matching(w) : i <= j) =>
                    wk[w].handler = wk[w].table.rules[i].endpoint

\* Rule j is tried before rule i: its match_compare_key is smaller, or the
\* keys are equal and j was registered first.
TriedBefore(rules, j, i) ==
    \/ LexLess(match_compare_key(rules[j]), match_compare_key(rules[i]))
    \/ match_compare_key(rules[j]) = match_compare_key(rules[i]) /\ j < i

\* C9 amended: with two or more rules, the handler is that of the matching
\* rule no other matching rule is tried before; registration order decides
\* only among matching rules of equal match_compare_key.
C9_MatchOrder ==
    \A w \in Workers :
        Resolved(w) /\ Len(wk[w].table.rules) >= 2 =>
            \A i \in Matching(w) :
                (\A j \in Matching(w) \ {i} : ~TriedBefore(wk[w].table.rules, j, i)) =>
                    wk[w].handler = wk[w].table.rules[i].endpoint

C9_Witness ==
    \E w \in Workers :
        /\ Resolved(w) /\ wk[w].svc = 2
        /\ wk[w].path = ReqPath(<<"b">>, FALSE)
        /\ Matching(w) = {1, 3}
        /\ match_compare_key(wk[w].table.rules[1]) = match_compare_key(wk[w].table.rules[3])
        /\ wk[w].handler = "h_var"

\* C10 as stated: a path that matches none of the rules ends the resolution,
\* the dispatch and the call with NoMatchingRoute, and no handler is resolved.
C10_NoMatchRaises ==
    \A w \in Workers :
        Resolved(w) /\ Matching(w) = {} =>
            /\ wk[w].handler = "none" /\ wk[w].invoked = 0
            /\ wk[w].d.kind = "NoMatchingRoute"
            /\ Done(w) => wk[w].result.kind = "NoMatchingRoute"

\* C10 amended: the same for every table that does not consist of exactly
\* one rule; a single rule is taken without matching.
C10_NoMatchRaisesUnlessSingle ==
    \A w \in Workers :
        Resolved(w) /\ Matching(w) = {} /\ Len(wk[w].table.rules) # 1 =>
            /\ wk[w].handler = "none" /\ wk[w].invoked = 0
            /\ wk[w].d.kind = "NoMatchingRoute"
            /\ Done(w) => wk[w].result.kind = "NoMatchingRoute"

C10_Witness ==
    \E w \in Workers :
        /\ Done(w) /\ wk[w].op = "call_moto" /\ wk[w].svc = 2
        /\ wk[w].path = ReqPath(<<"b", "b">>, FALSE)
        /\ Matching(w) = {}
        /\ wk[w].result.kind = "NoMatchingRoute"

\* ---------------------------------------------------------------- claims, continued

Dispatching(f) ==
    /\ f.op \in {"call_moto", "proxy_moto", "fallback", "call_moto_with_request"}
    /\ f.pc \in {"lookup", "build", "store", "resolve", "invoke", "translate"}

\* C11: a step of a dispatch leaves the service, the operation and the path of
\* the context as they are and keeps every header entry in its place; the
\* only change of the headers is the account header added at their end, and
\* a dispatch that called the handler, returning or raising, ends with the
\* headers it got followed by that one header.
C11_OnlyAccountHeaderAdded ==
    [][\A w \in Workers :
          Dispatching(wk[w]) =>
              /\ wk'[w].svc = wk[w].svc /\ wk'[w].op = wk[w].op
              /\ wk'[w].path = wk[w].path
              /\ \/ wk'[w].headers = wk[w].headers
                 \/ wk'[w].headers =
                        Append(wk[w].headers, <<XMotoAccountId, get_aws_account_id(w)>>)
              /\ wk'[w].invoked = 1 =>
                    wk'[w].headers =
                        Append(wk[w].before, <<XMotoAccountId, get_aws_account_id(w)>>)]_vars

C11_Witness ==
    \E w \in Workers :
        /\ Done(w) /\ wk[w].op = "proxy_moto" /\ wk[w].out.kind = "RESTError"
        /\ wk[w].before = << <<"host", "localhost">> >>
        /\ wk[w].headers = << <<"host", "localhost">>,
                              <<XMotoAccountId, DEFAULT_AWS_ACCOUNT_ID>> >>

\* Headers.get(name): the value of the first entry of that name.
HeaderGet(headers, name) ==
    headers[CHOOSE i \in DOMAIN headers :
                headers[i][1] = name /\ \A j \in DOMAIN headers : headers[j][1] = name => i <= j][2]

\* C12: in call_moto_with_request every header of the original context whose
\* name the rebuilt request does not set is an entry of the headers of the
\* request that is dispatched and handed to the handler, and a lookup of
\* its name gives the original value.
C12_OriginalHeadersKept ==
    \A w \in Workers :
        wk[w].op = "call_moto_with_request" /\ wk[w].pc # "rebuild" =>
            \A i \in DOMAIN wk[w].orig :
                wk[w].orig[i][1] \notin Names(NewRequestHeaders) =>
                    /\ \E j \in DOMAIN wk[w].headers : wk[w].headers[j] = wk[w].orig[i]
                    /\ HeaderGet(wk[w].headers, wk[w].orig[i][1])
                           = HeaderGet(wk[w].orig, wk[w].orig[i][1])

C12_Witness ==
    \E w \in Workers :
        /\ Done(w) /\ wk[w].op = "call_moto_with_request" /\ wk[w].invoked = 1
        /\ wk[w].orig = << <<"content-type", "text/plain">>, <<"host", "localhost">> >>
        /\ wk[w].headers = NewRequestHeaders \o wk[w].orig
                               \o << <<XMotoAccountId, DEFAULT_AWS_ACCOUNT_ID>> >>
        /\ HeaderGet(wk[w].headers, "host") = "localhost"

\* C13: a call whose handler was resolved calls it exactly once, whether it
\* returns a success, returns an error status or raises; no call calls a
\* handler twice, and a call without a resolved handler calls none.
C13_SingleAttempt ==
    \A w \in Workers :
        /\ wk[w].invoked <= 1
        /\ wk[w].handler = "none" => wk[w].invoked = 0
        /\ wk[w].handler # "none" /\ wk[w].pc \in {"translate", "done"} =>
              wk[w].invoked = 1

C13_Witness ==
    \E w \in Workers :
        /\ Done(w) /\ wk[w].op = "call_moto"
        /\ wk[w].out.kind = "return" /\ wk[w].out.status = 400
        /\ wk[w].result.kind = "CommonServiceException"
        /\ wk[w].invoked = 1

\* C14: proxy_moto returns the handler's status, headers and content as they
\* are, as an HTTP response, for every status; an error status does not
\* turn into an exception.
C14_ProxyReturnsTriple ==
    \A w \in Workers :
        Done(w) /\ wk[w].op = "proxy_moto" /\ wk[w].out.kind = "return" =>
            /\ wk[w].result.kind = "HttpResponse"
            /\ wk[w].result.status = wk[w].out.status
            /\ wk[w].result.headers = wk[w].out.headers
            /\ wk[w].result.response = wk[w].out.content

C14_Witness ==
    \E w \in Workers :
        /\ Done(w) /\ wk[w].op = "proxy_moto"
        /\ wk[w].out.kind = "return" /\ wk[w].out.status = 400
        /\ wk[w].out.content = <<ErrCodeOnly>>
        /\ wk[w].result = [kind |-> "HttpResponse", response |-> <<ErrCodeOnly>>,
                           status |-> 400,
                           headers |-> << <<"content-type", "text/xml">> >>]

\* C15: in calls of get_moto_routing_table that do not overlap,
\* load_moto_routing_table runs for a service that has a backend only in the
\* first call for it: a call that built the table is the only one that ever
\* did, whatever other services were asked for in between.
C15_BuiltByFirstCallOnly ==
    \A s \in 1..NumServices :
        select_backend(s).ok =>
            /\ builds[s] <= 1
            /\ \A w \in Workers : GotTable(w, s) /\ s \in CacheKeys(cache) =>
                  wk[w].result.table = CacheGet(cache, s)

\* The tables that exist: the cached ones and those the workers hold.
Tables ==
    {cache[i].table : i \in DOMAIN cache}
        \cup {wk[w].table : w \in {v \in Workers : wk[v].table # NoTable}}

\* Table t has one rule per registration of fp, in that order, with the
\* registration's pattern and handler and with strict_slashes off.
RulesOf(t, fp) ==
    /\ Len(t.rules) = Len(fp)
    /\ \A i \in DOMAIN fp :
          /\ t.rules[i].segs = fp[i].segs /\ t.rules[i].slash = fp[i].slash
          /\ t.rules[i].endpoint = fp[i].handler
          /\ t.rules[i].strict_slashes = FALSE

\* C16: every table is built from the instance of the default account under
\* "us-east-1" when the backend is partitioned and has that region, from the
\* default account's instance under "global" when it is partitioned without
\* that region, and from the "global" instance of a backend that is not
\* partitioned.
C16_BackendSelection ==
    \A t \in Tables :
        LET bd == get_backend(t.svc) IN
        /\ bd.kind \in {"BackendDict", "dict"}
        /\ bd.kind = "BackendDict"
              /\ "us-east-1" \in DOMAIN bd.accounts[DEFAULT_AWS_ACCOUNT_ID] =>
                 RulesOf(t, bd.accounts[DEFAULT_AWS_ACCOUNT_ID]["us-east-1"])
        /\ bd.kind = "BackendDict"
              /\ "us-east-1" \notin DOMAIN bd.accounts[DEFAULT_AWS_ACCOUNT_ID] =>
                 RulesOf(t, bd.accounts[DEFAULT_AWS_ACCOUNT_ID]["global"])
        /\ bd.kind = "dict" => RulesOf(t, bd.flat["global"])

C16_Witness ==
    /\ {2, 3} \subseteq CacheKeys(cache)
    /\ Len(CacheGet(cache, 2).rules) = Len(ManyPaths)
    /\ CacheGet(cache, 2).rules[1].endpoint = "h_var"
    /\ CacheGet(cache, 3).rules[2].endpoint = "h_g_ab"
    /\ ~CacheGet(cache, 3).rules[1].strict_slashes

\* A call of worker w that is inside get_moto_routing_table for a service
\* whose build fails.
Failing(w) ==
    /\ wk[w].pc \in {"lookup", "build"}
    /\ ~select_backend(wk[w].svc).ok

\* C17: a table lookup for an unknown service or for a backend without a
\* selectable instance always misses and invokes the builder, and the
\* failing build leaves the cache as it was, stores nothing under the key
\* and ends the call with the failure: as the result of
\* get_moto_routing_table, as the exception of a dispatch.
C17_FailedBuildNotCached ==
    [][\A w \in Workers :
          Failing(w) /\ wk'[w] # wk[w] =>
              /\ cache' = cache
              /\ wk[w].svc \notin CacheKeys(cache')
              /\ wk[w].pc = "lookup" => wk'[w].pc = "build"
              /\ wk[w].pc = "build" =>
                    /\ builds'[wk[w].svc] = builds[wk[w].svc] + 1
                    /\ wk'[w].table = NoTable
                    /\ IF wk[w].op = "get_moto_routing_table"
                       THEN /\ wk'[w].pc = "done"
                            /\ wk'[w].result = [kind |-> "ConfigurationError"]
                       ELSE /\ wk'[w].pc = "translate"
                            /\ wk'[w].d = [kind |-> "ConfigurationError"]]_vars

C17_Witness ==
    \E w \in Workers :
        /\ Done(w) /\ wk[w].op = "get_moto_routing_table" /\ wk[w].svc = 5
        /\ wk[w].result = [kind |-> "ConfigurationError"]
        /\ wk[w].built = 1 /\ builds[5] = 2
        /\ 5 \notin CacheKeys(cache)

\* A dispatch of worker w whose handler resolution failed: the table could
\* not be built or no rule matched the path.
ResolutionFailed(w) ==
    /\ wk[w].op \in {"call_moto", "proxy_moto", "fallback", "call_moto_with_request"}
    /\ wk[w].pc \in {"translate", "done"}
    /\ wk[w].d.kind \in {"ConfigurationError", "NoMatchingRoute"}

\* C18: a dispatch whose handler resolution failed has the headers it was
\* called with, without the account header, has called no handler, and
\* ends with the failure of the resolution.
C18_ResolvedBeforeHeader ==
    \A w \in Workers :
        ResolutionFailed(w) =>
            /\ wk[w].headers = wk[w].before
            /\ wk[w].invoked = 0
            /\ wk[w].handler = Idle.handler
            /\ wk[w].out = Idle.out
            /\ Done(w) => wk[w].result = wk[w].d

C18_Witness ==
    \E w \in Workers :
        /\ Done(w) /\ ResolutionFailed(w) /\ wk[w].d.kind = "NoMatchingRoute"
        /\ wk[w].op = "proxy_moto" /\ wk[w].table # NoTable
        /\ wk[w].before # <<>> /\ wk[w].headers = wk[w].before
        /\ wk[w].invoked = 0

====
